---- MODULE Spec2Model ----
(***************************************************************************)
(* libmtp-rs, module `basic`: device discovery, session opening, the       *)
(* MTPDevice session and its property operations, modelled over an         *)
(* abstract transport (libmtp behind the ffi boundary).                    *)
(*                                                                         *)
(* A pointer handed back by the transport is a record [addr, mem]: addr is *)
(* NULL or a heap address, mem the memory behind it.  Every operation      *)
(* leaves a record of itself in `call`: what the transport answered, the   *)
(* addresses passed to libc::free in order, and the value returned.        *)
(***************************************************************************)
EXTENDS Integers, Sequences, FiniteSets, TLC

\* ------------------------------------------------------------------ bounds
MaxSessions == 2    \* session owners (slots holding an Option<MTPDevice>)
MaxOpens == 3       \* handles the transport allocates in one run
MaxDevices == 2     \* records in one enumeration buffer
MaxStrLen == 2      \* bytes of a transport string before its terminator
MaxTypes == 2       \* entries of a supported-filetypes list
MaxLevel == 100     \* largest battery level the transport reports
NumThreads == 2     \* threads calling into discovery
MaxAdjacent == 1    \* bytes read past the end of a text before a NUL is met

\* ------------------------------------------------------------- data values
NULL == 0
Ptr(a, m) == [addr |-> a, mem |-> m]
NullPtr == Ptr(NULL, <<>>)
is_null(p) == p.addr = NULL
\* the one heap address a call's transport buffer lives at
BufAddr == NULL + 1

SeqsUpTo(S, n) == UNION {[1..k -> S] : k \in 0..n}

Ok(v) == [tag |-> "Ok", val |-> v]
Err(k) == [tag |-> "Err", val |-> k]
Some(v) == [tag |-> "Some", val |-> v]
None == [tag |-> "None", val |-> NULL]
\* a memory fault (the process dies) and a Rust panic (the call unwinds)
Fault == [tag |-> "Fault", val |-> NULL]
Panic == [tag |-> "Panic", val |-> NULL]

NoSession == [live |-> FALSE, inner |-> NULL]
MTPDevice(h) == [live |-> TRUE, inner |-> h]
RawDevice(r) == [inner |-> r]

Slots == 1..MaxSessions
Handles == 1..MaxOpens
Threads == 1..NumThreads
\* LIBMTP_raw_device_struct, reduced to the fields that tell devices apart
DeviceRecords == {[bus_location |-> 1, devnum |-> n] : n \in 1..MaxDevices}
\* what reading freed or foreign memory as a device record can give
Poison == [bus_location |-> 0, devnum |-> 0]

VARIABLES
  once,        \* the guard of internals::maybe_init: "new", "running", "done"
  initCount,   \* times the transport's process-wide initialization ran
  pc,          \* per thread: its place inside detect_raw_devices
  uninitUse,   \* a transport call was made while initialization had not completed
  descs,       \* the Vec<RawDevice> the caller holds from the last discovery
  sessions,    \* per slot: NoSession or the MTPDevice it owns
  nextHandle,  \* the transport's next fresh session handle
  released,    \* per handle (NULL included): LIBMTP_Release_Device calls on it
  devOf,       \* per handle the transport holds open: the device record it is for
  staleUse,    \* a session operation reached the transport with a released handle
  friendly,    \* the transport's stored friendly name and the text last set
  call,        \* the last completed operation
  crashed      \* the process died of a memory fault

vars == <<once, initCount, pc, uninitUse, descs, sessions, nextHandle, released,
          devOf, staleUse, friendly, call, crashed>>

NoCall == [op |-> "none", sess |-> 0, arg |-> <<>>, buf |-> NullPtr, res |-> 0,
           frees |-> <<>>, ret |-> None]
MkCall(o, s, a, p, r, out) ==
  [op |-> o, sess |-> s, arg |-> a, buf |-> p, res |-> r,
   frees |-> out.frees, ret |-> out.ret]

\* every call into libmtp: it runs on whatever state initialization is in
TransportCall == uninitUse' = (uninitUse \/ once # "done")
\* a call into libmtp on a session handle
SessionCall(h) ==
  /\ TransportCall
  /\ staleUse' = (staleUse \/ released[h] > 0)

Live(s) == sessions[s].live /\ ~crashed

\* ------------------------------------------------------- session lifecycle
\* the transport's answer to an open: NULL, or a handle it has never given out
OpenAnswers == {NULL} \cup (IF nextHandle <= MaxOpens THEN {nextHandle} ELSE {})

OpenWith(opname, s, i, device) ==
  /\ ~crashed
  /\ ~sessions[s].live
  /\ i \in 1..Len(descs)
  /\ device \in OpenAnswers
  /\ TransportCall
  /\ nextHandle' = IF device = NULL THEN nextHandle ELSE nextHandle + 1
  /\ devOf' = IF device = NULL THEN devOf
              ELSE [devOf EXCEPT ![device] = descs[i].inner]
  /\ IF device = NULL
     THEN /\ sessions' = sessions
          /\ call' = MkCall(opname, s, descs[i], Ptr(device, <<>>), 0,
                            [frees |-> <<>>, ret |-> None])
     ELSE /\ sessions' = [sessions EXCEPT ![s] = MTPDevice(device)]
          /\ call' = MkCall(opname, s, descs[i], Ptr(device, <<>>), 0,
                            [frees |-> <<>>, ret |-> Some(device)])
  /\ UNCHANGED <<once, initCount, pc, descs, released, staleUse, friendly, crashed>>

\* an open that hands out the handle of a session already open on the descriptor
OpenSharingHandle(s, i, device) ==
  /\ i \in 1..Len(descs)
  /\ IF \E r \in Slots : sessions[r].live /\ devOf[sessions[r].inner] = descs[i].inner
     THEN /\ ~crashed /\ ~sessions[s].live /\ device = NULL
          /\ TransportCall
          /\ \E r \in Slots :
               /\ sessions[r].live /\ devOf[sessions[r].inner] = descs[i].inner
               /\ sessions' = [sessions EXCEPT ![s] = sessions[r]]
               /\ call' = MkCall("open", s, descs[i], Ptr(sessions[r].inner, <<>>), 0,
                                 [frees |-> <<>>, ret |-> Some(sessions[r].inner)])
          /\ UNCHANGED <<once, initCount, pc, descs, nextHandle, released, devOf,
                         staleUse, friendly, crashed>>
     ELSE OpenWith("open", s, i, device)

open(s, i, device) == OpenWith("open", s, i, device)

open_uncached(s, i, device) == OpenWith("open_uncached", s, i, device)

\* a session that goes away without releasing its handle
DropWithoutRelease(s) ==
  /\ Live(s)
  /\ TransportCall
  /\ sessions' = [sessions EXCEPT ![s] = NoSession]
  /\ call' = MkCall("drop", s, devOf[sessions[s].inner], Ptr(sessions[s].inner, <<>>), 0,
                    [frees |-> <<>>, ret |-> None])
  /\ UNCHANGED <<once, initCount, pc, descs, nextHandle, released, devOf, staleUse,
                 friendly, crashed>>

\* impl Drop for MTPDevice
Drop(s) ==
  /\ Live(s)
  /\ SessionCall(sessions[s].inner)
  /\ released' = [released EXCEPT ![sessions[s].inner] = @ + 1]
  /\ devOf' = [devOf EXCEPT ![sessions[s].inner] = Poison]
  /\ sessions' = [sessions EXCEPT ![s] = NoSession]
  /\ call' = MkCall("drop", s, devOf[sessions[s].inner], Ptr(sessions[s].inner, <<>>), 0,
                    [frees |-> <<>>, ret |-> None])
  /\ UNCHANGED <<once, initCount, pc, descs, nextHandle, friendly, crashed>>

check_capability(s, answer) ==
  /\ Live(s)
  /\ SessionCall(sessions[s].inner)
  /\ call' = MkCall("check_capability", s, <<>>, Ptr(sessions[s].inner, <<>>), answer,
                    [frees |-> <<>>, ret |-> Ok(answer # 0)])
  /\ UNCHANGED <<once, initCount, pc, descs, sessions, nextHandle, released, devOf,
                 friendly, crashed>>

\* ------------------------------------------------------------ text decoding
\* the byte values the model draws strings from: NUL, 'A', and the two bytes
\* of U+00E9 (0xC3 0xA9); 0xA9 or 0xC3 on its own is not UTF-8
Bytes == {0, 65, 195, 169}
NonZero == Bytes \ {0}
\* a transport string: bytes, then the terminating NUL
CStrings == {Ptr(BufAddr, b \o <<0>>) : b \in SeqsUpTo(NonZero, MaxStrLen)}
StringAnswers == {NullPtr} \cup CStrings

RECURSIVE UntilNul(_)
\* the bytes before the first NUL, as strlen and CStr::to_bytes read them
UntilNul(m) ==
  IF m = <<>> \/ Head(m) = 0 THEN <<>> ELSE <<Head(m)>> \o UntilNul(Tail(m))

Cont(b) == b \in 128..191

RECURSIVE ValidUtf8(_)
\* core::str::from_utf8's validation, by leading byte
ValidUtf8(v) ==
  IF v = <<>> THEN TRUE
  ELSE LET b == Head(v)
           n == Len(v)
       IN IF b < 128 THEN ValidUtf8(Tail(v))
          ELSE IF b \in 194..223
            THEN n >= 2 /\ Cont(v[2]) /\ ValidUtf8(SubSeq(v, 3, n))
          ELSE IF b \in 224..239
            THEN /\ n >= 3 /\ Cont(v[2]) /\ Cont(v[3])
                 /\ (b = 224 => v[2] >= 160)
                 /\ (b = 237 => v[2] <= 159)
                 /\ ValidUtf8(SubSeq(v, 4, n))
          ELSE IF b \in 240..244
            THEN /\ n >= 4 /\ Cont(v[2]) /\ Cont(v[3]) /\ Cont(v[4])
                 /\ (b = 240 => v[2] >= 144)
                 /\ (b = 244 => v[2] <= 143)
                 /\ ValidUtf8(SubSeq(v, 5, n))
          ELSE FALSE

\* String::from_utf8(vec)?
from_utf8(v) == IF ValidUtf8(v) THEN Ok(v) ELSE Err("Utf8")

\* c_charp_to_u8v!: the bytes behind a C string pointer, copied into a Vec<u8>.
\* Behind NULL there is no string: reading it is undefined, and gives a fault
\* or whatever bytes the read happens to find.
c_charp_to_u8v(p) ==
  IF is_null(p)
  THEN {[fault |-> TRUE, bytes |-> <<>>]}
       \cup {[fault |-> FALSE, bytes |-> b] : b \in SeqsUpTo(NonZero, MaxStrLen)}
  ELSE {[fault |-> FALSE, bytes |-> UntilNul(p.mem)]}

\* the decode moved before the free: `?` leaves before the buffer is released
DecodeBeforeFree(p) ==
  {IF o.fault THEN [frees |-> <<>>, ret |-> Fault]
   ELSE IF ValidUtf8(o.bytes) THEN [frees |-> <<p.addr>>, ret |-> Ok(o.bytes)]
   ELSE [frees |-> <<>>, ret |-> Err("Utf8")] : o \in c_charp_to_u8v(p)}

\* let vec = c_charp_to_u8v!(p); libc::free(p); Ok(String::from_utf8(vec)?)
CopyFreeDecode(p) ==
  {IF o.fault THEN [frees |-> <<>>, ret |-> Fault]
   ELSE [frees |-> <<p.addr>>, ret |-> from_utf8(o.bytes)] : o \in c_charp_to_u8v(p)}

\* if p.is_null() { Err(Error::Unknown) } else { copy, free, decode }
NullChecked(p) ==
  IF is_null(p) THEN {[frees |-> <<>>, ret |-> Err("Unknown")]}
  ELSE CopyFreeDecode(p)

\* `res as u32`: a non-negative code keeps its value, a negative one wraps to the
\* top of the unsigned range (folded here onto the top of the checker's integers,
\* which end at 2^31 - 1: from_code only tells zero, 1..9 and the rest apart)
as_u32(res) == IF res >= 0 THEN res ELSE (2147483647 + res) + 1
\* Error::from_code: zero is success, anything else an error kind
from_code(code) ==
  IF code = 0 THEN None
  ELSE IF code \in 1..9 THEN Some("Mtp") ELSE Some("Unknown")
ResCodes == {0, 1, -1}

\* the state a finished session operation leaves behind
SessionOp(opname, s, arg, p, res, out) ==
  /\ Live(s)
  /\ SessionCall(sessions[s].inner)
  /\ call' = MkCall(opname, s, arg, p, res, out)
  /\ crashed' = (out.ret.tag = "Fault")
  /\ UNCHANGED <<once, initCount, pc, descs, sessions, nextHandle, released, devOf>>

\* ---------------------------------------------------- string property getters
get_friendly_name(s, p) ==
  /\ \E out \in NullChecked(p) : SessionOp("get_friendly_name", s, <<>>, p, 0, out)
  /\ UNCHANGED friendly

get_sync_partner(s, p) ==
  /\ \E out \in CopyFreeDecode(p) : SessionOp("get_sync_partner", s, <<>>, p, 0, out)
  /\ UNCHANGED friendly

\* manufacturer_name written without its null check, as get_sync_partner is
ManufacturerNameUnchecked(s, p) ==
  /\ \E out \in CopyFreeDecode(p) : SessionOp("manufacturer_name", s, <<>>, p, 0, out)
  /\ UNCHANGED friendly

manufacturer_name(s, p) ==
  /\ \E out \in NullChecked(p) : SessionOp("manufacturer_name", s, <<>>, p, 0, out)
  /\ UNCHANGED friendly

model_name(s, p) ==
  /\ \E out \in NullChecked(p) : SessionOp("model_name", s, <<>>, p, 0, out)
  /\ UNCHANGED friendly

serial_number(s, p) ==
  /\ \E out \in NullChecked(p) : SessionOp("serial_number", s, <<>>, p, 0, out)
  /\ UNCHANGED friendly

\* the result code is looked at first, then the pointer
CodeThenNullChecked(res, p) ==
  IF from_code(as_u32(res)).tag = "Some"
  THEN {[frees |-> <<>>, ret |-> Err(from_code(as_u32(res)).val)]}
  ELSE NullChecked(p)

device_certificate(s, res, p) ==
  /\ \E out \in CodeThenNullChecked(res, p) :
       SessionOp("device_certificate", s, <<>>, p, res, out)
  /\ UNCHANGED friendly

secure_time(s, res, p) ==
  /\ \E out \in CodeThenNullChecked(res, p) :
       SessionOp("secure_time", s, <<>>, p, res, out)
  /\ UNCHANGED friendly

\* a transport call with a result code and an out-pointer: a buffer comes with
\* success only; success may still leave the pointer NULL
CodedAnswers(bufs) ==
  {<<r, NullPtr>> : r \in ResCodes} \cup {<<0, p>> : p \in bufs}

\* ------------------------------------------------------- supported filetypes
\* Filetype::from_u16: the closed enumeration has the codes 0..44
Filetype_from_u16(c) == IF c \in 0..44 THEN Some(c) ELSE None
TypeCodes == {0, 44, 45}
TypeLists == {Ptr(BufAddr, m) : m \in SeqsUpTo(TypeCodes, MaxTypes)}

\* the loop `for i in 0..len { Filetype::from_u16(*filetypes.offset(i)).unwrap() }`
\* followed by the free; an unwrap of None panics out of the function
FiletypesOutcome(res, p, len) ==
  IF from_code(as_u32(res)).tag = "Some"
  THEN [frees |-> <<>>, ret |-> Err(from_code(as_u32(res)).val)]
  ELSE IF is_null(p) THEN [frees |-> <<>>, ret |-> Err("Unknown")]
  ELSE IF \E i \in 1..len : Filetype_from_u16(p.mem[i]).tag = "None"
    THEN [frees |-> <<>>, ret |-> Panic]
  ELSE [frees |-> <<p.addr>>,
        ret |-> Ok([i \in 1..len |-> Filetype_from_u16(p.mem[i]).val])]

supported_filetypes(s, res, p) ==
  /\ SessionOp("supported_filetypes", s, <<>>, p, res,
               FiletypesOutcome(res, p, Len(p.mem)))
  /\ UNCHANGED friendly

\* ------------------------------------------------------------- friendly name
\* a Rust &str: UTF-8, any length, a NUL allowed inside, no terminator after it
Names == {x \in SeqsUpTo(Bytes, MaxStrLen) : ValidUtf8(x)}
\* the memory that happens to follow the text, up to a NUL somewhere in it; or
\* none that can be read
Adjacent ==
  {[fault |-> TRUE, bytes |-> <<>>]}
  \cup {[fault |-> FALSE, bytes |-> b \o <<0>>] : b \in SeqsUpTo(NonZero, MaxAdjacent)}

\* LIBMTP_Set_Friendlyname(self.inner, name.as_ptr()): the transport reads a C
\* string at the pointer, that is the text and then whatever follows it in
\* memory up to the first NUL, and on success stores what it read
set_friendly_name(s, name, adj, res) ==
  /\ IF adj.fault
     THEN /\ SessionOp("set_friendly_name", s, name, NullPtr, res,
                       [frees |-> <<>>, ret |-> Fault])
          /\ UNCHANGED friendly
     ELSE /\ SessionOp("set_friendly_name", s, name, NullPtr, res,
                       [frees |-> <<>>,
                        ret |-> IF from_code(as_u32(res)).tag = "Some"
                                THEN Err(from_code(as_u32(res)).val) ELSE Ok(<<>>)])
          /\ friendly' = IF res = 0
                         THEN [given |-> name, set |-> TRUE,
                               stored |-> Ptr(BufAddr, UntilNul(name \o adj.bytes) \o <<0>>)]
                         ELSE friendly

\* LIBMTP_Get_Friendlyname on a transport that echoes: a fresh copy of the
\* stored name; before any name was set, whatever the device has (or NULL)
EchoAnswers == IF friendly.set THEN {friendly.stored} ELSE StringAnswers

\* ------------------------------------------------------------- battery level
OnExternalPower == [kind |-> "OnExternalPower", pct |-> 0]
OnBattery(n) == [kind |-> "OnBattery", pct |-> n]

\* the two out-parameters in the wrong order
BatterySwapped(res, max_level, cur_level) ==
  IF from_code(as_u32(res)).tag = "Some"
  THEN [frees |-> <<>>, ret |-> Err(from_code(as_u32(res)).val)]
  ELSE [frees |-> <<>>,
        ret |-> Ok(<<IF max_level = 0 THEN OnExternalPower ELSE OnBattery(max_level),
                     cur_level>>)]

\* max_level and cur_level are what LIBMTP_Get_Batterylevel wrote
BatteryOutcome(res, max_level, cur_level) ==
  IF from_code(as_u32(res)).tag = "Some"
  THEN [frees |-> <<>>, ret |-> Err(from_code(as_u32(res)).val)]
  ELSE [frees |-> <<>>,
        ret |-> Ok(<<IF cur_level = 0 THEN OnExternalPower ELSE OnBattery(cur_level),
                     max_level>>)]

battery_level(s, res, max_level, cur_level) ==
  /\ SessionOp("battery_level", s, <<max_level, cur_level>>, NullPtr, res,
               BatteryOutcome(res, max_level, cur_level))
  /\ UNCHANGED friendly

\* LIBMTP_Get_Batterylevel: success with the two readings, or an error code
\* with the out-parameters left as they were or already written
BatteryAnswers ==
  {<<0, m, c>> : m \in {0, 1, MaxLevel}, c \in 0..MaxLevel}
  \cup {<<r, l, l>> : r \in ResCodes \ {0}, l \in {0, MaxLevel}}

\* ------------------------------------------------------------------ discovery
\* maybe_init: a std::sync::Once around LIBMTP_Init. The first caller runs the
\* initialization, a caller arriving meanwhile waits for it, a later one passes.
call_once(t) ==
  /\ ~crashed
  /\ pc[t] = "idle"
  /\ \/ /\ once = "new"
        /\ once' = "running"
        /\ pc' = [pc EXCEPT ![t] = "init"]
     \/ /\ once = "running"
        /\ once' = once
        /\ pc' = [pc EXCEPT ![t] = "blocked"]
     \/ /\ once = "done"
        /\ once' = once
        /\ pc' = [pc EXCEPT ![t] = "enumerate"]
  /\ UNCHANGED <<initCount, uninitUse, descs, sessions, nextHandle, released, devOf,
                 staleUse, friendly, call, crashed>>

LIBMTP_Init(t) ==
  /\ pc[t] = "init"
  /\ initCount' = initCount + 1
  /\ once' = "done"
  /\ pc' = [pc EXCEPT ![t] = "enumerate"]
  /\ UNCHANGED <<uninitUse, descs, sessions, nextHandle, released, devOf, staleUse,
                 friendly, call, crashed>>

once_wait(t) ==
  /\ pc[t] = "blocked"
  /\ once = "done"
  /\ pc' = [pc EXCEPT ![t] = "enumerate"]
  /\ UNCHANGED <<once, initCount, uninitUse, descs, sessions, nextHandle, released,
                 devOf, staleUse, friendly, call, crashed>>

\* *devices.offset(i): a record of the buffer while it is allocated
ReadRecord(p, i, freed) ==
  IF freed \/ is_null(p) \/ i >= Len(p.mem) THEN Poison ELSE p.mem[i + 1]

\* the buffer freed before the records are copied out of it
DetectFreeBeforeCopy(res, p, len) ==
  IF from_code(res).tag = "Some"
  THEN [frees |-> <<>>, ret |-> Err(from_code(res).val)]
  ELSE [frees |-> <<p.addr>>,
        ret |-> Ok([k \in 1..len |-> RawDevice(ReadRecord(p, k - 1, TRUE))])]

\* the copy loop `for i in 0..len`, then libc::free(devices)
DetectOutcome(res, p, len) ==
  IF from_code(res).tag = "Some"
  THEN [frees |-> <<>>, ret |-> Err(from_code(res).val)]
  ELSE [frees |-> <<p.addr>>,
        ret |-> Ok([k \in 1..len |-> RawDevice(ReadRecord(p, k - 1, FALSE))])]

\* LIBMTP_Detect_Raw_Devices: an error code with nothing, or success with a
\* buffer of numdevs records, one for each attached device; with no device the
\* buffer may be NULL
DetectCodes == {1, 5}
DetectAnswers ==
  {<<r, NullPtr>> : r \in DetectCodes \cup {0}}
  \cup {<<0, Ptr(BufAddr, m)>> : m \in {x \in SeqsUpTo(DeviceRecords, MaxDevices) :
                                            \A j, k \in 1..Len(x) : j # k => x[j] # x[k]}}

\* detect_raw_devices after maybe_init() returned
detect_raw_devices(t, res, p) ==
  /\ ~crashed
  /\ pc[t] = "enumerate"
  /\ TransportCall
  /\ LET out == DetectOutcome(res, p, Len(p.mem))
     IN /\ call' = MkCall("detect_raw_devices", t, Len(p.mem), p, res, out)
        /\ descs' = IF out.ret.tag = "Ok" THEN out.ret.val ELSE descs
  /\ pc' = [pc EXCEPT ![t] = "idle"]
  /\ UNCHANGED <<once, initCount, sessions, nextHandle, released, devOf, staleUse,
                 friendly, crashed>>

check_specific_device(t, busno, devno, res) ==
  /\ ~crashed
  /\ pc[t] = "idle"
  /\ TransportCall
  /\ call' = MkCall("check_specific_device", t, <<busno, devno>>, NullPtr, res,
                    [frees |-> <<>>, ret |-> Ok(res = 1)])
  /\ UNCHANGED <<once, initCount, pc, descs, sessions, nextHandle, released, devOf,
                 staleUse, friendly, crashed>>

\* -------------------------------------------------------------------- init
\* the descriptors of a discovery that found every attached device
AllDescs == [i \in 1..MaxDevices |-> RawDevice([bus_location |-> 1, devnum |-> i])]
NoName == [given |-> <<>>, set |-> FALSE, stored |-> NullPtr]

InitCommon ==
  /\ pc = [t \in Threads |-> "idle"]
  /\ uninitUse = FALSE
  /\ sessions = [s \in Slots |-> NoSession]
  /\ nextHandle = 1
  /\ released = [h \in {NULL} \cup Handles |-> 0]
  /\ devOf = [h \in Handles |-> Poison]
  /\ staleUse = FALSE
  /\ friendly = NoName
  /\ call = NoCall
  /\ crashed = FALSE

\* process start: nothing initialized, nothing discovered
Init ==
  /\ once = "new"
  /\ initCount = 0
  /\ descs = <<>>
  /\ InitCommon

\* after one completed discovery that returned every attached device
InitDiscovered ==
  /\ once = "done"
  /\ initCount = 1
  /\ descs = AllDescs
  /\ InitCommon

\* ------------------------------------------------ sessions: open, use, drop
NextSessions ==
  \/ \E s \in Slots, i \in 1..MaxDevices, h \in {NULL} \cup Handles : open(s, i, h)
  \/ \E s \in Slots, i \in 1..MaxDevices, h \in {NULL} \cup Handles : open_uncached(s, i, h)
  \/ \E s \in Slots : Drop(s)
  \/ \E s \in Slots, a \in {0, 1} : check_capability(s, a)

Spec == InitDiscovered /\ [][NextSessions]_vars

\* ----------------------------------- one session owner and its property calls
\* the slot of the single owner the property specifications follow
Owner == CHOOSE s \in Slots : \A r \in Slots : s <= r
NextOwner ==
  \/ \E i \in 1..MaxDevices, h \in {NULL} \cup Handles : open(Owner, i, h)
  \/ \E i \in 1..MaxDevices, h \in {NULL} \cup Handles : open_uncached(Owner, i, h)
  \/ Drop(Owner)

NextProps ==
  \/ NextOwner
  \/ \E p \in StringAnswers : get_friendly_name(Owner, p)
  \/ \E p \in StringAnswers : get_sync_partner(Owner, p)
  \/ \E p \in StringAnswers : manufacturer_name(Owner, p)
  \/ \E p \in StringAnswers : model_name(Owner, p)
  \/ \E p \in StringAnswers : serial_number(Owner, p)
  \/ \E a \in CodedAnswers(CStrings) : device_certificate(Owner, a[1], a[2])
  \/ \E a \in CodedAnswers(CStrings) : secure_time(Owner, a[1], a[2])
  \/ \E a \in CodedAnswers(TypeLists) : supported_filetypes(Owner, a[1], a[2])

SpecProps == InitDiscovered /\ [][NextProps]_vars

NextName ==
  \/ NextOwner
  \/ \E x \in Names, a \in Adjacent, r \in ResCodes : set_friendly_name(Owner, x, a, r)
  \/ \E p \in EchoAnswers : get_friendly_name(Owner, p)

SpecName == InitDiscovered /\ [][NextName]_vars

NextBattery ==
  \/ NextOwner
  \/ \E a \in BatteryAnswers : battery_level(Owner, a[1], a[2], a[3])

SpecBattery == InitDiscovered /\ [][NextBattery]_vars

\* --------------------------------------------- discovery from several threads
\* the threads discover and probe; one owner opens a session on what was found
\* (what becomes of a session is followed in Spec)
NextDiscovery ==
  \/ \E t \in Threads : call_once(t)
  \/ \E t \in Threads : LIBMTP_Init(t)
  \/ \E t \in Threads : once_wait(t)
  \/ \E t \in Threads, a \in DetectAnswers : detect_raw_devices(t, a[1], a[2])
  \/ \E t \in Threads, r \in {0, 1} : check_specific_device(t, 1, 1, r)
  \/ \E i \in 1..MaxDevices, h \in {NULL} \cup Handles : open(Owner, i, h)
  \/ \E i \in 1..MaxDevices, h \in {NULL} \cup Handles : open_uncached(Owner, i, h)

SpecDiscovery == Init /\ [][NextDiscovery]_vars

\* ------------------------------------------------------------------ claims
Held(h) == \E s \in Slots : sessions[s].live /\ sessions[s].inner = h
Opened(h) == h \in Handles /\ h < nextHandle
RECURSIVE SumReleased(_)
SumReleased(H) ==
  IF H = {} THEN 0
  ELSE LET h == CHOOSE x \in H : TRUE IN released[h] + SumReleased(H \ {h})
\* how often address a was passed to libc::free during the last call
FreesOf(a) == Cardinality({k \in 1..Len(call.frees) : call.frees[k] = a})
OpenOps == {"open", "open_uncached"}

\* C1: LIBMTP_Release_Device is called exactly once for every non-null handle an
\* open returned, at the drop of the session owning it (a handle still held has
\* no release yet), and never for an open that returned null: such an open
\* returns None and leaves its slot without a session. Once every session is
\* dropped, the releases number the successful opens.
C1_ReleaseOncePerOpen ==
  /\ released[NULL] = 0
  /\ \A h \in Handles : released[h] = IF Opened(h) /\ ~Held(h) THEN 1 ELSE 0
  /\ \A s \in Slots : sessions[s].live => Opened(sessions[s].inner)
  /\ (call.op \in OpenOps /\ is_null(call.buf)
        => call.ret.tag = "None" /\ ~sessions[call.sess].live)
  /\ ((\A s \in Slots : ~sessions[s].live)
        => SumReleased({NULL} \cup Handles) = nextHandle - 1)

\* two opens succeeded, one returned null in between or after, all sessions dropped
C1_Witness ==
  /\ nextHandle = 3
  /\ \A s \in Slots : ~sessions[s].live
  /\ released[1] = 1 /\ released[2] = 1
  /\ call.op = "drop"

\* C10: no two live sessions hold the same handle; dropping one session releases
\* its own handle only, so every live session's handle is unreleased, and no
\* session operation ever reaches the transport with a released handle.
C10_SessionsIndependent ==
  /\ \A s1, s2 \in Slots :
       s1 # s2 /\ sessions[s1].live /\ sessions[s2].live
         => sessions[s1].inner # sessions[s2].inner
  /\ \A s \in Slots : sessions[s].live => released[sessions[s].inner] = 0
  /\ ~staleUse

\* the same descriptor was opened twice, one of the two sessions has just been
\* dropped and the other is still live
C10_Witness ==
  /\ call.op = "drop"
  /\ released[call.buf.addr] = 1
  /\ \E s \in Slots :
       /\ sessions[s].live
       /\ devOf[sessions[s].inner] = call.arg
       /\ released[sessions[s].inner] = 0

StringOps == {"get_friendly_name", "get_sync_partner", "manufacturer_name",
              "model_name", "serial_number", "device_certificate", "secure_time"}

\* C2: a string-returning operation that got a non-null buffer passes it to
\* libc::free exactly once and frees nothing else, whether the bytes decode
\* (Ok with the bytes before the terminator) or not (the decode error).
C2_BufferFreedOnce ==
  call.op \in StringOps /\ ~is_null(call.buf)
    => /\ call.frees = <<call.buf.addr>>
       /\ IF ValidUtf8(UntilNul(call.buf.mem))
          THEN call.ret.tag = "Ok" /\ call.ret.val = UntilNul(call.buf.mem)
          ELSE call.ret.tag = "Err" /\ call.ret.val = "Utf8"

\* a buffer that is not UTF-8 was handed back, freed once, and the error returned
C2_Witness ==
  /\ call.op = "secure_time"
  /\ ~is_null(call.buf)
  /\ ~ValidUtf8(UntilNul(call.buf.mem))
  /\ FreesOf(call.buf.addr) = 1
  /\ call.ret.tag = "Err"

FallibleOps == {"supported_filetypes", "device_certificate", "secure_time",
                "detect_raw_devices"}

\* C3: on every exit of a fallible operation that is not a success, every
\* non-null buffer the transport handed to the call was freed exactly once.
C3_NoLeakOnErrorPath ==
  call.op \in FallibleOps /\ call.ret.tag # "Ok" /\ ~is_null(call.buf)
    => FreesOf(call.buf.addr) = 1

\* C4: get_sync_partner returns Ok with the empty string when the transport
\* returns a null string.
C4_SyncPartnerNullIsEmpty ==
  call.op = "get_sync_partner" /\ is_null(call.buf)
    => call.ret.tag = "Ok" /\ call.ret.val = <<>>

NullCheckedOps == {"manufacturer_name", "get_friendly_name", "model_name",
                   "serial_number"}

\* C5: a null buffer from the transport makes manufacturer_name,
\* get_friendly_name, model_name and serial_number return Err(Unknown) without
\* any call of libc::free, and the session stays open on an unreleased handle.
C5_NullIsUnknownNoFree ==
  call.op \in NullCheckedOps /\ is_null(call.buf)
    => /\ call.ret.tag = "Err" /\ call.ret.val = "Unknown"
       /\ call.frees = <<>>
       /\ ~crashed
       /\ sessions[call.sess].live
       /\ released[sessions[call.sess].inner] = 0

C5_Witness ==
  /\ call.op = "manufacturer_name"
  /\ is_null(call.buf)
  /\ call.ret.tag = "Err"
  /\ sessions[call.sess].live

\* C8: on a transport that stores the C string it is given and echoes it,
\* get_friendly_name returns the text of the last successful set_friendly_name,
\* for every non-empty text (stated here for the texts that hold no NUL, which
\* a C string can carry whole).
C8_FriendlyNameRoundTrip ==
  /\ call.op = "get_friendly_name"
  /\ friendly.set
  /\ friendly.given # <<>>
  /\ \A k \in 1..Len(friendly.given) : friendly.given[k] # 0
  => call.ret.tag = "Ok" /\ call.ret.val = friendly.given

\* C9: with a success code, current = 0 gives (OnExternalPower, maximum) for
\* every maximum, every current of 1..100 gives (OnBattery(current), maximum);
\* an error code gives the mapped error and no reading.
C9_BatteryDecoding ==
  call.op = "battery_level"
    => LET max_level == call.arg[1]
           cur_level == call.arg[2]
       IN IF call.res = 0
          THEN /\ call.ret.tag = "Ok"
               /\ call.ret.val[2] = max_level
               /\ (cur_level = 0 => call.ret.val[1] = OnExternalPower)
               /\ (cur_level \in 1..100 => call.ret.val[1] = OnBattery(cur_level))
          ELSE call.ret.tag = "Err"

\* the transport reported current = 100 of maximum = 100
C9_Witness ==
  /\ call.op = "battery_level"
  /\ call.res = 0
  /\ call.arg = <<100, 100>>
  /\ call.ret.tag = "Ok"
  /\ call.ret.val[1] = OnBattery(100)

\* C6: a discovery the transport reports as successful returns as many
\* descriptors as the transport counted, descriptor i a copy of record i, held
\* by the caller after the buffer was freed; a non-null buffer is freed exactly
\* once; zero devices, a NULL buffer included, give Ok with no descriptor.
C6_DiscoveryCopies ==
  call.op = "detect_raw_devices" /\ call.res = 0
    => /\ call.ret.tag = "Ok"
       /\ Len(call.ret.val) = call.arg
       /\ \A k \in 1..call.arg : call.ret.val[k] = RawDevice(call.buf.mem[k])
       /\ descs = call.ret.val
       /\ (~is_null(call.buf) => call.frees = <<call.buf.addr>>)
       /\ (is_null(call.buf) => call.ret.val = <<>> /\ FreesOf(BufAddr) = 0)

\* the transport reported two devices
C6_Witness ==
  /\ call.op = "detect_raw_devices"
  /\ call.res = 0
  /\ call.arg = 2
  /\ call.ret.tag = "Ok"
  /\ Len(descs) = 2
  /\ FreesOf(call.buf.addr) = 1

\* C7: initialization runs at most once, and no transport call is made before
\* it has completed.
C7_InitBeforeTransport ==
  /\ initCount <= 1
  /\ ~uninitUse
====
